---- MODULE Spec2Model ----
(***************************************************************************)
(* Task-orchestration core of the agentic middleware: capability registry, *)
(* intent classifier, task planner, execution engine and the facade        *)
(* AgenticMiddleware, together with the pydantic data models they use.     *)
(*                                                                         *)
(* Representation.                                                         *)
(*  - A Python str is a sequence of one-character strings; Python None     *)
(*    given where a str is expected is NoneInput.                          *)
(*  - The outcome of a call is a record [raised, error, value]: raised     *)
(*    tells whether the call ended by raising an Exception, error is       *)
(*    str(e), value is the returned object.                                *)
(*  - Enum members are written by their value ("completed"); a model field *)
(*    that holds the member itself rather than its value (which decides    *)
(*    whether `.value` can be read from it) carries status_is_enum.        *)
(***************************************************************************)
EXTENDS Integers, Sequences, FiniteSets, Bags, TLC

\* ------------------------------------------------------------------------
\* Bounds of the model
\* ------------------------------------------------------------------------
\* register_agent calls explored
MaxRegistrations == 2
\* subtasks of the plans given to execute_plan
MaxSubtasks == 2
\* steps of an ExecutionPlan of the data model
MaxSteps == 3
\* calls suspended at an await at the same time
MaxInFlight == 2
\* seconds a suspended call is followed for
MaxElapsed == 2

\* ------------------------------------------------------------------------
\* Python values
\* ------------------------------------------------------------------------
None == [none |-> TRUE]

Str(chars) == [isStr |-> TRUE, chars |-> chars]

NoneInput == [isStr |-> FALSE, chars |-> <<>>]

Return(v) == [raised |-> FALSE, error |-> "", value |-> v]

Raise(msg) == [raised |-> TRUE, error |-> msg, value |-> None]

\* str.lower() on the characters a string of the model can hold: the
\* letters A-Z and the Latin-1 capitals U+00C0..U+00DE, the multiplication
\* sign U+00D7 among them left as it is
Lowercase ==
    "A" :> "a" @@ "B" :> "b" @@ "C" :> "c" @@ "D" :> "d" @@ "E" :> "e"
    @@ "F" :> "f" @@ "G" :> "g" @@ "H" :> "h" @@ "I" :> "i" @@ "J" :> "j"
    @@ "K" :> "k" @@ "L" :> "l" @@ "M" :> "m" @@ "N" :> "n" @@ "O" :> "o"
    @@ "P" :> "p" @@ "Q" :> "q" @@ "R" :> "r" @@ "S" :> "s" @@ "T" :> "t"
    @@ "U" :> "u" @@ "V" :> "v" @@ "W" :> "w" @@ "X" :> "x" @@ "Y" :> "y"
    @@ "Z" :> "z"
    @@ "À" :> "à" @@ "Á" :> "á" @@ "Â" :> "â" @@ "Ã" :> "ã" @@ "Ä" :> "ä"
    @@ "Å" :> "å" @@ "Æ" :> "æ" @@ "Ç" :> "ç" @@ "È" :> "è" @@ "É" :> "é"
    @@ "Ê" :> "ê" @@ "Ë" :> "ë" @@ "Ì" :> "ì" @@ "Í" :> "í" @@ "Î" :> "î"
    @@ "Ï" :> "ï" @@ "Ð" :> "ð" @@ "Ñ" :> "ñ" @@ "Ò" :> "ò" @@ "Ó" :> "ó"
    @@ "Ô" :> "ô" @@ "Õ" :> "õ" @@ "Ö" :> "ö" @@ "Ø" :> "ø" @@ "Ù" :> "ù"
    @@ "Ú" :> "ú" @@ "Û" :> "û" @@ "Ü" :> "ü" @@ "Ý" :> "ý" @@ "Þ" :> "þ"

LowerChar(c) == IF c \in DOMAIN Lowercase THEN Lowercase[c] ELSE c

lower(s) == [i \in 1..Len(s) |-> LowerChar(s[i])]

\* the characters str.strip() takes for whitespace (str.isspace()), of those
\* a string of the model can hold: space, \t, \n, \r, form feed, vertical
\* tab (0x0b), the separators 0x1c..0x1f, NEL (0x85) and the no-break space
\* (0xa0).  The Unicode spaces beyond 0xff are whitespace for strip() too.
WhitespaceChars ==
    {" ", "\t", "\n", "\r", "\f",
     "", "", "", "", "", "", " "}

IsSpace(c) == c \in WhitespaceChars

\* str.strip(): drop leading and trailing whitespace
strip(s) ==
    IF \A i \in 1..Len(s) : IsSpace(s[i]) THEN <<>>
    ELSE SubSeq(s,
                CHOOSE i \in 1..Len(s) :
                    ~IsSpace(s[i]) /\ \A j \in 1..(i - 1) : IsSpace(s[j]),
                CHOOSE i \in 1..Len(s) :
                    ~IsSpace(s[i]) /\ \A j \in (i + 1)..Len(s) : IsSpace(s[j]))

\* Python `kw in s` on strings
Contains(s, kw) ==
    \E i \in 0..(Len(s) - Len(kw)) : SubSeq(s, i + 1, i + Len(kw)) = kw

\* ------------------------------------------------------------------------
\* Enums (models/agent_models.py, core/orchestration/intent_classifier.py)
\* ------------------------------------------------------------------------
AgentType ==
    {"code", "infrastructure", "testing", "devops", "documentation",
     "security", "planning", "review"}

TaskStatus == {"pending", "in_progress", "completed", "failed", "cancelled"}

\* agent_models.IntentType
IntentType ==
    {"code_generation", "code_review", "refactoring", "infrastructure_setup",
     "testing", "deployment", "documentation", "debugging", "security_scan",
     "explanation", "project_setup"}

\* intent_classifier.IntentType
ClassifierIntentType ==
    {"code_generation", "infrastructure_setup", "testing", "documentation",
     "security_scan"}

Priority == {1, 5, 8, 10}

PRIORITY_MEDIUM == 5

PRIORITY_HIGH == 8

\* ------------------------------------------------------------------------
\* IntentClassifier
\* ------------------------------------------------------------------------
\* intent_examples with the testing entry put first
intent_examples_TestingFirst ==
    << [intent |-> "testing",
        keywords |->
          << <<"w","r","i","t","e"," ","t","e","s","t","s">>,
             <<"c","r","e","a","t","e"," ","u","n","i","t"," ","t","e","s","t","s">>,
             <<"t","e","s","t"," ","c","o","v","e","r","a","g","e">> >> ],
       [intent |-> "code_generation",
        keywords |->
          << <<"c","r","e","a","t","e"," ","a"," ","f","u","n","c","t","i","o","n">>,
             <<"w","r","i","t","e"," ","c","o","d","e"," ","f","o","r">>,
             <<"i","m","p","l","e","m","e","n","t">>,
             <<"g","e","n","e","r","a","t","e">> >>],
       [intent |-> "infrastructure_setup",
        keywords |->
          << <<"d","e","p","l","o","y"," ","t","o">>,
             <<"c","r","e","a","t","e"," ","d","o","c","k","e","r","f","i","l","e">>,
             <<"s","e","t","u","p"," ","k","u","b","e","r","n","e","t","e","s">> >>] >>

\* self.intent_examples, a dict: iterated in insertion order
intent_examples ==
    << [intent |-> "code_generation",
        keywords |->
          << <<"c","r","e","a","t","e"," ","a"," ","f","u","n","c","t","i","o","n">>,
             <<"w","r","i","t","e"," ","c","o","d","e"," ","f","o","r">>,
             <<"i","m","p","l","e","m","e","n","t">>,
             <<"g","e","n","e","r","a","t","e">> >>],
       [intent |-> "infrastructure_setup",
        keywords |->
          << <<"d","e","p","l","o","y"," ","t","o">>,
             <<"c","r","e","a","t","e"," ","d","o","c","k","e","r","f","i","l","e">>,
             <<"s","e","t","u","p"," ","k","u","b","e","r","n","e","t","e","s">> >>],
       [intent |-> "testing",
        keywords |->
          << <<"w","r","i","t","e"," ","t","e","s","t","s">>,
             <<"c","r","e","a","t","e"," ","u","n","i","t"," ","t","e","s","t","s">>,
             <<"t","e","s","t"," ","c","o","v","e","r","a","g","e">> >> ] >>

\* any(keyword in user_input_lower for keyword in keywords)
AnyKeyword(text, keywords) ==
    \E k \in 1..Len(keywords) : Contains(text, keywords[k])

\* classify that returns None when no keyword matches
classify_NoFallback(user_input) ==
    IF ~user_input.isStr
    THEN Raise("'NoneType' object has no attribute 'lower'")
    ELSE LET user_input_lower == lower(user_input.chars)
             hits == {i \in 1..Len(intent_examples) :
                        AnyKeyword(user_input_lower, intent_examples[i].keywords)}
         IN  IF hits = {} THEN Return("<None>")
             ELSE Return(intent_examples[CHOOSE i \in hits : \A j \in hits : i <= j].intent)

\* classify(user_input, context): the context is not read.  A user_input
\* that is not a str has no lower(): AttributeError.
classify(user_input) ==
    IF ~user_input.isStr
    THEN Raise("'NoneType' object has no attribute 'lower'")
    ELSE LET user_input_lower == lower(user_input.chars)
             hits == {i \in 1..Len(intent_examples) :
                        AnyKeyword(user_input_lower, intent_examples[i].keywords)}
         IN  IF hits = {} THEN Return("code_generation")
             ELSE Return(intent_examples[CHOOSE i \in hits : \A j \in hits : i <= j].intent)

\* ------------------------------------------------------------------------
\* Data models (models/agent_models.py)
\* ------------------------------------------------------------------------
\* Optional[str] holding None
NoneStr == "<None>"

\* ExecutionContext instance handed to the facade, or None in its place
ExecutionContext(session_id) == [isContext |-> TRUE, session_id |-> session_id]

NoneContext == [isContext |-> FALSE, session_id |-> ""]

\* TaskRequest whose description validator tests `not v` only, without
\* strip()
TaskRequest_NoStrip(id, intent, description, context, priority, timeout, retry_count, max_retries) ==
    IF intent \notin IntentType
    THEN Raise("1 validation error: intent")
    ELSE IF ~description.isStr
    THEN Raise("1 validation error: description: Input should be a valid string")
    ELSE IF description.chars = <<>>
    THEN Raise("1 validation error: description: Task description cannot be empty")
    ELSE IF ~context.isContext
    THEN Raise("1 validation error: context")
    ELSE IF priority \notin Priority
    THEN Raise("1 validation error: priority")
    ELSE IF timeout < 1
    THEN Raise("1 validation error: timeout: Timeout must be at least 1 second")
    ELSE IF timeout > 3600
    THEN Raise("1 validation error: timeout: Timeout cannot exceed 1 hour")
    ELSE Return([id |-> id, intent |-> intent,
                 description |-> strip(description.chars),
                 context |-> context, priority |-> priority,
                 timeout |-> timeout, retry_count |-> retry_count,
                 max_retries |-> max_retries])

\* TaskRequest(...): pydantic validates the fields on construction.  intent
\* is looked up by value in agent_models.IntentType, description must be
\* non-empty after strip() and is stored stripped, timeout must lie in
\* 1..3600; retry_count and max_retries are plain ints without a validator.
\* str(e) of the ValidationError is written as the first failing field.
TaskRequest(id, intent, description, context, priority, timeout, retry_count, max_retries) ==
    IF intent \notin IntentType
    THEN Raise("1 validation error: intent")
    ELSE IF ~description.isStr
    THEN Raise("1 validation error: description: Input should be a valid string")
    ELSE IF strip(description.chars) = <<>>
    THEN Raise("1 validation error: description: Task description cannot be empty")
    ELSE IF ~context.isContext
    THEN Raise("1 validation error: context")
    ELSE IF priority \notin Priority
    THEN Raise("1 validation error: priority")
    ELSE IF timeout < 1
    THEN Raise("1 validation error: timeout: Timeout must be at least 1 second")
    ELSE IF timeout > 3600
    THEN Raise("1 validation error: timeout: Timeout cannot exceed 1 hour")
    ELSE Return([id |-> id, intent |-> intent,
                 description |-> strip(description.chars),
                 context |-> context, priority |-> priority,
                 timeout |-> timeout, retry_count |-> retry_count,
                 max_retries |-> max_retries])

\* TaskResult(...): agent_type and status are looked up by value in their
\* enums and, under use_enum_values, stored as the plain value, so the
\* constructed object's status is a str.  Times are in milliseconds.
TaskResult(task_id, agent_type, status, result, error, execution_time) ==
    IF agent_type \notin AgentType
    THEN Raise("1 validation error: agent_type: Input should be 'code', 'infrastructure', ...")
    ELSE IF status \notin TaskStatus
    THEN Raise("1 validation error: status")
    ELSE IF execution_time < 0
    THEN Raise("1 validation error: execution_time: Execution time cannot be negative")
    ELSE Return([task_id |-> task_id, agent_type |-> agent_type,
                 status |-> status, status_is_enum |-> FALSE,
                 result |-> result, error |-> error,
                 execution_time |-> execution_time,
                 confidence_score |-> 1, completed |-> FALSE])

\* create_task_result(task_id, agent_type, status, result, error,
\* execution_time): the TaskResult, with completed_at set at once when
\* status == TaskStatus.COMPLETED; the status stays the plain value
create_task_result(task_id, agent_type, status, result, error, execution_time) ==
    LET task_result == TaskResult(task_id, agent_type, status, result, error,
                                  execution_time)
    IN  IF task_result.raised THEN task_result
        ELSE IF status = "completed"
        THEN Return([task_result.value EXCEPT !.completed = TRUE])
        ELSE task_result

\* TaskResult.mark_completed(result): plain attribute assignment (no
\* validate_assignment), so status now holds the enum member; `if result:`
\* keeps the old payload when the new one is None or the empty dict (<<>>).
mark_completed(tr, result) ==
    [tr EXCEPT !.status = "completed", !.status_is_enum = TRUE,
               !.completed = TRUE,
               !.result = IF result = None \/ DOMAIN result = {} THEN @ ELSE result]

\* TaskResult.mark_failed(error)
mark_failed(tr, error) ==
    [tr EXCEPT !.status = "failed", !.status_is_enum = TRUE,
               !.error = error, !.completed = TRUE]

\* Field defaults of TaskRequest
DEFAULT_TIMEOUT == 300

DEFAULT_RETRY_COUNT == 0

DEFAULT_MAX_RETRIES == 3

\* ------------------------------------------------------------------------
\* Workers (agents/base/agent.py)
\* ------------------------------------------------------------------------
\* A worker is a record [id, agent_type, kind, handles].  kind tells its
\* execute():
\*   "codegen"      CodeGenerationAgent with the MockLLMClient
\*   "codegen_nollm" CodeGenerationAgent whose llm_client is None
\*   "raises"       a BaseAgent whose execute always raises
\*   "flaky"        a BaseAgent whose execute raises while it has failures
\*                  left and then returns a Completed TaskResult
\*   "marks"        a BaseAgent that creates a Pending TaskResult and calls
\*                  mark_completed on it
\* handles is the set of intents its can_handle accepts.
CodeGenerationAgent(id, llm) ==
    [id |-> id, agent_type |-> "code",
     kind |-> IF llm THEN "codegen" ELSE "codegen_nollm",
     handles |-> {"code_generation"}]

BaseAgent(id, agent_type, kind, handles) ==
    [id |-> id, agent_type |-> agent_type, kind |-> kind, handles |-> handles]

\* failures a flaky worker raises before it succeeds
FlakyFailures == 2

\* worker.can_handle(task)
can_handle(agent, task) == task.intent \in agent.handles

\* MockLLMClient.chat_completion: the canned answer picked by substring of
\* the lower-cased user message
chat_completion(content) ==
    LET user_message == lower(content)
    IN  IF Contains(user_message, <<"f","a","s","t","a","p","i">>)
        THEN [code |-> "fastapi_app", language |-> "python"]
        ELSE IF Contains(user_message, <<"r","e","a","c","t">>)
        THEN [code |-> "react_counter", language |-> "javascript"]
        ELSE IF Contains(user_message, <<"f","u","n","c","t","i","o","n">>)
                /\ Contains(user_message, <<"p","y","t","h","o","n">>)
        THEN [code |-> "fibonacci", language |-> "python"]
        ELSE [code |-> "hello", language |-> "python"]

\* execution_time reported by CodeGenerationAgent, in milliseconds
MOCK_EXECUTION_TIME == 1500

\* a worker's own TaskResult r, once built, marked Completed by the worker
MarkedCompleted(r, result) ==
    IF r.raised THEN r ELSE Return(mark_completed(r.value, result))

\* worker.execute(task); failuresLeft is the flaky workers' state
execute(agent, task, failuresLeft) ==
    CASE agent.kind = "codegen" ->
           TaskResult(task.id, agent.agent_type, "completed",
                      chat_completion(task.description), NoneStr,
                      MOCK_EXECUTION_TIME)
      [] agent.kind = "codegen_nollm" ->
           TaskResult(task.id, agent.agent_type, "failed", None,
                      "'NoneType' object has no attribute 'chat_completion'", 0)
      [] agent.kind = "raises" -> Raise("worker failed")
      [] agent.kind = "flaky" ->
           IF failuresLeft[agent.id] > 0
           THEN Raise("worker failed")
           ELSE TaskResult(task.id, agent.agent_type, "completed",
                           [code |-> "hello", language |-> "python"], NoneStr, 0)
      [] agent.kind = "marks" ->
           MarkedCompleted(TaskResult(task.id, agent.agent_type, "pending", None, NoneStr, 0),
                           [code |-> "hello", language |-> "python"])

\* the flaky workers' state after one more execute call
AfterExecute(agent, failuresLeft) ==
    IF agent.kind = "flaky" /\ failuresLeft[agent.id] > 0
    THEN [failuresLeft EXCEPT ![agent.id] = @ - 1]
    ELSE failuresLeft

\* ------------------------------------------------------------------------
\* AgentRegistry (core/orchestration/agent_registry.py)
\* ------------------------------------------------------------------------
\* self.agents is a dict keyed by agent type: a sequence of [key, agent] in
\* insertion order of the keys.
\* self.agents[agent.agent_type] = agent: a new key goes to the end, the
\* value of an existing key is replaced where the key stands
register_agent(agents, agent) ==
    IF \E i \in 1..Len(agents) : agents[i].key = agent.agent_type
    THEN [agents EXCEPT
            ![CHOOSE i \in 1..Len(agents) : agents[i].key = agent.agent_type].agent = agent]
    ELSE Append(agents, [key |-> agent.agent_type, agent |-> agent])

\* the agents of self.agents.values() that can handle the task, in order
RECURSIVE find_capable_agents(_, _)
find_capable_agents(agents, task) ==
    IF agents = <<>> THEN <<>>
    ELSE LET rest == find_capable_agents(Tail(agents), task)
         IN  IF can_handle(Head(agents).agent, task)
             THEN <<Head(agents).agent>> \o rest
             ELSE rest

\* dict.values() of the registry, for get_all_capabilities and the claims
RegisteredAgents(agents) == {agents[i].agent : i \in 1..Len(agents)}

\* agent.get_capabilities(): self.capabilities, [] in BaseAgent and the
\* list set by CodeGenerationAgent.__init__
get_capabilities(agent) ==
    IF agent.kind \in {"codegen", "codegen_nollm"}
    THEN <<"Generate Python code", "Generate JavaScript/TypeScript code",
           "Generate API endpoints", "Generate React components",
           "Code refactoring">>
    ELSE <<>>

\* get_all_capabilities(): a new dict from each key of the registry to the
\* capabilities of the agent held under it
get_all_capabilities(agents) ==
    [key \in {agents[i].key : i \in 1..Len(agents)} |->
        get_capabilities(agents[CHOOSE i \in 1..Len(agents) : agents[i].key = key].agent)]

\* ------------------------------------------------------------------------
\* ExecutionEngine (core/orchestration/execution_engine.py)
\* ------------------------------------------------------------------------
\* The result of an engine call: its outcome, the ids of the workers whose
\* execute it called (in call order) and the workers' state afterwards.
EngineResult(outcome, dispatched, failuresLeft) ==
    [outcome |-> outcome, dispatched |-> dispatched, failuresLeft |-> failuresLeft]

\* the engine's fallback TaskResult, built in the no-agent branch and in the
\* except handler: agent_type="unknown"
UnknownAgentResult(task, error) ==
    TaskResult(task.id, "unknown", "failed", None, error, 0)

\* the except handler of execute_task: it builds the fallback TaskResult of
\* the fault; a fault of that construction leaves execute_task
ExecuteTaskHandler(task, fault) ==
    IF ~fault.raised THEN fault ELSE UnknownAgentResult(task, fault.error)

\* whether the worker's execute can be suspended at an await.  The only
\* await of CodeGenerationAgent.execute is on llm_client.chat_completion:
\* without llm_client it fails before it, and MockLLMClient.chat_completion
\* has no await of its own, so the call ends without yielding to the event
\* loop.  The execute of another subclass of BaseAgent is its own code: it
\* waits for an external call.
Suspends(agent) == agent.kind \notin {"codegen", "codegen_nollm"}

\* whether the worker's can_handle can be suspended at an await:
\* CodeGenerationAgent.can_handle has no await; the can_handle of another
\* subclass of BaseAgent is its own code
CanHandleSuspends(agent) == agent.kind \notin {"codegen", "codegen_nollm"}

\* the choice of the last capable agent
SelectAgent_Last(capable_agents) == capable_agents[Len(capable_agents)]

\* selected_agent = capable_agents[0]
SelectAgent(capable_agents) == capable_agents[1]

\* the try block of execute_task(task)
ExecuteTaskBody(agents, task, failuresLeft) ==
    LET capable_agents == find_capable_agents(agents, task)
    IN  IF capable_agents = <<>>
        THEN EngineResult(UnknownAgentResult(task, "No capable agents found"),
                          <<>>, failuresLeft)
        ELSE LET selected_agent == SelectAgent(capable_agents)
             IN  EngineResult(execute(selected_agent, task, failuresLeft),
                              <<selected_agent.id>>,
                              AfterExecute(selected_agent, failuresLeft))

\* execute_task(task)
execute_task(agents, task, failuresLeft) ==
    [ExecuteTaskBody(agents, task, failuresLeft) EXCEPT
        !.outcome = ExecuteTaskHandler(task, @)]

\* ------------------------------------------------------------------------
\* execute_task as a coroutine.  It can be suspended at two awaits: in
\* find_capable_agents, at `await agent.can_handle(task)`, and at `await
\* selected_agent.execute(task)`.  While it is suspended other calls run on
\* the event loop, register_agent among them.  A frame holds the locals of
\* the suspended call.
\* ------------------------------------------------------------------------
\* suspended in can_handle of `agent`, the j-th value of the iteration over
\* self.agents.values() begun when the dict had `size` keys
CanHandleFrame(size, j, agent, capable_agents) ==
    [pc |-> "can_handle", size |-> size, j |-> j, agent |-> agent,
     capable_agents |-> capable_agents]

\* suspended in execute of selected_agent
ExecuteFrame(capable_agents, selected_agent) ==
    [pc |-> "execute", capable_agents |-> capable_agents,
     selected_agent |-> selected_agent]

\* the try block has ended as body
Done(body) == [pc |-> "done", body |-> body]

\* the loop of find_capable_agents from the j-th value on, up to the first
\* can_handle that suspends.  The dict iterator raises RuntimeError when
\* the dict has another number of keys than when the iteration began; a
\* value replaced under its key is read as it is now.
RECURSIVE FindFrom(_, _, _, _, _)
FindFrom(agents, task, size, j, capable_agents) ==
    IF Len(agents) # size
    THEN [pc |-> "raised", error |-> "dictionary changed size during iteration"]
    ELSE IF j > Len(agents)
    THEN [pc |-> "found", capable_agents |-> capable_agents]
    ELSE IF CanHandleSuspends(agents[j].agent)
    THEN CanHandleFrame(size, j, agents[j].agent, capable_agents)
    ELSE FindFrom(agents, task, size, j + 1,
                  IF can_handle(agents[j].agent, task)
                  THEN Append(capable_agents, agents[j].agent)
                  ELSE capable_agents)

\* find_capable_agents(task) from its start
FindStart(agents, task) == FindFrom(agents, task, Len(agents), 1, <<>>)

\* find_capable_agents(task) from the can_handle it is suspended in
FindResume(agents, task, frame) ==
    FindFrom(agents, task, frame.size, frame.j + 1,
             IF can_handle(frame.agent, task)
             THEN Append(frame.capable_agents, frame.agent)
             ELSE frame.capable_agents)

\* execute_task once find_capable_agents has come to `found`: still
\* suspended in it, ended by its fault, or going on to the choice of the
\* worker, whose execute suspends or ends at once
AfterFind(task, found, failuresLeft) ==
    IF found.pc = "can_handle" THEN found
    ELSE IF found.pc = "raised"
    THEN Done(EngineResult(Raise(found.error), <<>>, failuresLeft))
    ELSE IF found.capable_agents = <<>>
    THEN Done(EngineResult(UnknownAgentResult(task, "No capable agents found"),
                           <<>>, failuresLeft))
    ELSE IF Suspends(SelectAgent(found.capable_agents))
    THEN ExecuteFrame(found.capable_agents, SelectAgent(found.capable_agents))
    ELSE Done(EngineResult(execute(SelectAgent(found.capable_agents), task, failuresLeft),
                           <<SelectAgent(found.capable_agents).id>>,
                           AfterExecute(SelectAgent(found.capable_agents), failuresLeft)))

\* execute_task(task) from its start up to its first suspension or its end
EngineStart(agents, task, failuresLeft) ==
    AfterFind(task, FindStart(agents, task), failuresLeft)

\* execute_task(task) from the await it is suspended at up to its next
\* suspension or its end
EngineResume(agents, task, frame, failuresLeft) ==
    IF frame.pc = "can_handle"
    THEN AfterFind(task, FindResume(agents, task, frame), failuresLeft)
    ELSE Done(EngineResult(execute(frame.selected_agent, task, failuresLeft),
                           <<frame.selected_agent.id>>,
                           AfterExecute(frame.selected_agent, failuresLeft)))

\* the engine result of an execute_task call whose try block ended as body
Handled(task, body) == [body EXCEPT !.outcome = ExecuteTaskHandler(task, @)]

\* task_planner.ExecutionPlan; dependencies is a dict from a task id to the
\* list of the ids it depends on
ExecutionPlan(id, original_task, subtasks, dependencies, estimated_duration) ==
    [id |-> id, original_task |-> original_task, subtasks |-> subtasks,
     dependencies |-> dependencies, estimated_duration |-> estimated_duration]

PLAN_ESTIMATED_DURATION == 60

\* create_plan that makes the task depend on itself
create_plan_SelfDependency(task) ==
    Return(ExecutionPlan("plan-1", task, <<task>>, [id \in {task.id} |-> <<task.id>>],
                         PLAN_ESTIMATED_DURATION))

\* create_plan that leaves the task out of the plan's subtasks
create_plan_NoSubtask(task) ==
    Return(ExecutionPlan("plan-1", task, <<>>, <<>>, PLAN_ESTIMATED_DURATION))

\* TaskPlanner.create_plan(task)
create_plan(task) ==
    Return(ExecutionPlan("plan-1", task, <<task>>, <<>>, PLAN_ESTIMATED_DURATION))

\* One iteration of the loop of execute_plan over plan.subtasks: run is the
\* engine's state after the subtasks before this one (its value holds the
\* results so far), r the outcome of execute_task on this one; a raise of
\* execute_task ends the loop and leaves execute_plan.
AppendResult(run, r) ==
    EngineResult(
        IF r.outcome.raised THEN r.outcome
        ELSE Return(Append(run.outcome.value, r.outcome.value)),
        run.dispatched \o r.dispatched,
        r.failuresLeft)

PlanLoopStep(agents, task, run) ==
    IF run.outcome.raised THEN run
    ELSE AppendResult(run, execute_task(agents, task, run.failuresLeft))

RECURSIVE PlanLoop(_, _, _, _)
PlanLoop(agents, subtasks, i, run) ==
    IF i > Len(subtasks) THEN run
    ELSE PlanLoop(agents, subtasks, i + 1, PlanLoopStep(agents, subtasks[i], run))

\* execute_plan(plan)
execute_plan(agents, plan, failuresLeft) ==
    PlanLoop(agents, plan.subtasks, 1, EngineResult(Return(<<>>), <<>>, failuresLeft))

\* ids of the subtasks whose TaskResult in results is Completed
CompletedIds(results) ==
    {results[k].task_id : k \in {j \in 1..Len(results) : results[j].status = "completed"}}

\* ids of the subtasks whose TaskResult in results is Failed
FailedIds(results) ==
    {results[k].task_id : k \in {j \in 1..Len(results) : results[j].status = "failed"}}

\* ids of the subtasks whose execute_task call has returned its TaskResult
ReturnedIds(results) == {results[k].task_id : k \in 1..Len(results)}

\* the record of a worker call made for the task when the results so far
\* are `results`
TraceEntry(task, results) ==
    [task_id |-> task.id, completed |-> CompletedIds(results),
     returned |-> ReturnedIds(results), failed |-> FailedIds(results)]

\* execute_plan as a coroutine: `for task in plan.subtasks: result = await
\* self.execute_task(task); results.append(result)`.  PlanFrom runs it from
\* its i-th subtask on, PlanAfter from the state s its execute_task call
\* for the i-th subtask has come to, up to the next suspension or the end;
\* a raise of execute_task ends it.  called tells whether the worker of
\* the i-th subtask had been called before s.
RECURSIVE PlanFrom(_, _, _, _, _)
RECURSIVE PlanAfter(_, _, _, _, _, _, _)
PlanFrom(agents, plan, i, run, trace) ==
    IF run.outcome.raised \/ i > Len(plan.subtasks)
    THEN [pc |-> "done", run |-> run, trace |-> trace]
    ELSE PlanAfter(agents, plan, i, run, trace, FALSE,
                   EngineStart(agents, plan.subtasks[i], run.failuresLeft))

PlanAfter(agents, plan, i, run, trace, called, s) ==
    LET task == plan.subtasks[i]
        calls == /\ ~called
                 /\ \/ s.pc = "execute"
                    \/ s.pc = "done" /\ s.body.dispatched # <<>>
        trace2 == IF calls THEN Append(trace, TraceEntry(task, run.outcome.value))
                  ELSE trace
    IN  IF s.pc = "done"
        THEN PlanFrom(agents, plan, i + 1, AppendResult(run, Handled(task, s.body)),
                      trace2)
        ELSE [pc |-> "await", plan |-> plan, i |-> i, run |-> run,
              trace |-> trace2, frame |-> s]

\* ------------------------------------------------------------------------
\* AgenticMiddleware (core/orchestration/middleware.py)
\* ------------------------------------------------------------------------
\* a key the response dict does not have
Absent == [absent |-> TRUE]

AbsentStr == "<absent>"

_needs_planning(task) == FALSE

\* _aggregate_results(results, plan)
_aggregate_results(results, plan) ==
    Return([status |-> "completed", result |-> Absent, results |-> results,
            error |-> AbsentStr])

\* _format_single_result(result): result.status.value needs the enum
\* member; on a str it is an AttributeError
_format_single_result(result) ==
    IF ~result.status_is_enum
    THEN Raise("'str' object has no attribute 'value'")
    ELSE Return([status |-> result.status, result |-> result.result,
                 results |-> Absent, error |-> AbsentStr])

\* the branch of process_request without planning, run being the outcome
\* of execute_task
SingleTaskResponse(run) ==
    IF run.outcome.raised THEN run
    ELSE [run EXCEPT !.outcome = _format_single_result(@.value)]

\* the branch of process_request with planning, run being the outcome of
\* execute_plan
PlanResponse(plan, run) ==
    IF run.outcome.raised THEN run
    ELSE [run EXCEPT !.outcome = _aggregate_results(@.value, plan)]

\* process_request from the TaskRequest on
ProcessTask(agents, task, failuresLeft) ==
    IF _needs_planning(task)
    THEN PlanResponse(create_plan(task).value,
                      execute_plan(agents, create_plan(task).value, failuresLeft))
    ELSE SingleTaskResponse(execute_task(agents, task, failuresLeft))

\* process_request from the classified intent on; id is the uuid4 of the
\* new TaskRequest
ProcessIntent(agents, intent, request, failuresLeft) ==
    IF request.raised THEN EngineResult(request, <<>>, failuresLeft)
    ELSE ProcessTask(agents, request.value, failuresLeft)

\* TaskRequest(intent=intent, description=user_input, context=context);
\* id is the uuid4 of the new TaskRequest
NewTaskRequest(user_input, context, id, intent) ==
    TaskRequest(id, intent, user_input, context, PRIORITY_MEDIUM, DEFAULT_TIMEOUT,
                DEFAULT_RETRY_COUNT, DEFAULT_MAX_RETRIES)

\* the try block of process_request
ProcessRequestBody(agents, user_input, context, id, failuresLeft) ==
    LET intent == classify(user_input)
    IN  IF intent.raised
        THEN EngineResult(intent, <<>>, failuresLeft)
        ELSE ProcessIntent(agents, intent.value,
                           NewTaskRequest(user_input, context, id, intent.value),
                           failuresLeft)

\* process_request whose except clause lets the fault through
ProcessRequestHandler_Reraise(fault) == fault

\* the except clause of process_request: the fault becomes a response
ProcessRequestHandler(fault) ==
    IF ~fault.raised THEN fault
    ELSE Return([status |-> "failed", result |-> Absent, results |-> Absent,
                 error |-> fault.error])

\* process_request(user_input, context): its response, the fault its try
\* block ended with, and its effects
FacadeResult(body) ==
    [outcome |-> ProcessRequestHandler(body.outcome),
     fault |-> body.outcome,
     dispatched |-> body.dispatched,
     failuresLeft |-> body.failuresLeft]

process_request(agents, user_input, context, id, failuresLeft) ==
    FacadeResult(ProcessRequestBody(agents, user_input, context, id, failuresLeft))

\* ------------------------------------------------------------------------
\* Planning models (Complete-Data-Models-pydantic-v2-Implementation.py)
\* ------------------------------------------------------------------------
\* ExecutionStep(...): no validator on any field
ExecutionStep(id, agent_type, task, dependencies, status, retry_count, max_retries) ==
    [id |-> id, agent_type |-> agent_type, task |-> task,
     dependencies |-> dependencies, status |-> status,
     retry_count |-> retry_count, max_retries |-> max_retries]

\* ExecutionStep.can_execute(completed_steps)
can_execute(step, completed_steps) ==
    \A k \in 1..Len(step.dependencies) : step.dependencies[k] \in completed_steps

\* get_ready_steps that takes every step not yet Completed for a waiting one
RECURSIVE get_ready_steps_NotCompleted(_, _)
get_ready_steps_NotCompleted(plan_steps, completed_step_ids) ==
    IF plan_steps = <<>> THEN <<>>
    ELSE LET rest == get_ready_steps_NotCompleted(Tail(plan_steps), completed_step_ids)
             step == Head(plan_steps)
         IN  IF step.status # "completed" /\ can_execute(step, completed_step_ids)
             THEN <<step>> \o rest
             ELSE rest

\* ExecutionPlan.get_ready_steps(completed_step_ids)
RECURSIVE get_ready_steps(_, _)
get_ready_steps(plan_steps, completed_step_ids) ==
    IF plan_steps = <<>> THEN <<>>
    ELSE LET rest == get_ready_steps(Tail(plan_steps), completed_step_ids)
             step == Head(plan_steps)
         IN  IF step.status = "pending" /\ can_execute(step, completed_step_ids)
             THEN <<step>> \o rest
             ELSE rest

\* get_progress that counts every step that has ended, whatever its status
get_progress_CountsEnded(plan_steps) ==
    IF plan_steps = <<>> THEN [num |-> 0, den |-> 1]
    ELSE LET ended ==
               Cardinality({k \in 1..Len(plan_steps) :
                              plan_steps[k].status \in {"completed", "failed", "cancelled"}})
         IN  [num |-> ended * 100, den |-> Len(plan_steps)]

\* ExecutionPlan.get_progress(): the float (completed / len(steps)) * 100.0
\* as the exact fraction num/den; 0.0 for a plan without steps
get_progress(plan_steps) ==
    IF plan_steps = <<>> THEN [num |-> 0, den |-> 1]
    ELSE LET completed ==
               Cardinality({k \in 1..Len(plan_steps) : plan_steps[k].status = "completed"})
         IN  [num |-> completed * 100, den |-> Len(plan_steps)]

\* ------------------------------------------------------------------------
\* Inputs explored
\* ------------------------------------------------------------------------
Workers ==
    { CodeGenerationAgent("w1", TRUE),
      CodeGenerationAgent("w2", FALSE),
      BaseAgent("w3", "testing", "flaky", {"testing", "code_generation"}),
      BaseAgent("w4", "infrastructure", "marks", {"infrastructure_setup"}) }

FlakyIds == {w.id : w \in {x \in Workers : x.kind = "flaky"}}

UserInputs ==
    { Str(<<"I","m","p","l","e","m","e","n","t"," ","i","t">>),
      Str(<<"d","e","p","l","o","y"," ","t","o"," ","x">>),
      Str(<<"w","r","i","t","e"," ","t","e","s","t","s">>),
      Str(<<"\f","h","i">>),
      Str(<<" ","\f">>),
      NoneInput }

Contexts == {ExecutionContext("s1"), NoneContext}

\* values uuid4 may give a new TaskRequest
TaskIds == {"t1", "t2"}

\* the value uuid4 gives the TaskRequest of a process_request call
RequestIds == {"t1"}

\* arguments a caller gives the TaskRequest constructor
RequestIntents == {"code_generation", "testing", "security_scan"}

RequestDescriptions ==
    {Str(<<"h","i">>), Str(<<"\f","h","i"," ">>), Str(<<" ">>), Str(<<"\f">>)}

RequestTimeouts == {0, DEFAULT_TIMEOUT, 3601}

RequestRetryCounts == {DEFAULT_RETRY_COUNT, 4}

\* the TaskRequests handed to execute_task and put in plans
ValidRequest(id, intent, retry_count) ==
    TaskRequest(id, intent, Str(<<"h","i">>), ExecutionContext("s1"),
                PRIORITY_MEDIUM, DEFAULT_TIMEOUT, retry_count,
                DEFAULT_MAX_RETRIES).value

EngineTasks ==
    {ValidRequest("t1", intent, DEFAULT_RETRY_COUNT) : intent \in RequestIntents}

\* AgentConfig(max_concurrent_tasks=...): Field(default=10, ge=1, le=100)
DEFAULT_MAX_CONCURRENT_TASKS == 10

AgentConfig(max_concurrent_tasks) ==
    IF max_concurrent_tasks < 1
    THEN Raise("1 validation error: max_concurrent_tasks: Input should be greater than or equal to 1")
    ELSE IF max_concurrent_tasks > 100
    THEN Raise("1 validation error: max_concurrent_tasks: Input should be less than or equal to 100")
    ELSE Return([max_concurrent_tasks |-> max_concurrent_tasks])

\* requests handled at the same time on one session id
MaxRequests == 3

Requests == 1..MaxRequests

\* ------------------------------------------------------------------------
\* State
\* ------------------------------------------------------------------------
VARIABLES
    agents,        \* AgentRegistry.agents
    registered,    \* the workers given to register_agent, in call order
    failuresLeft,  \* state of the flaky workers
    last,          \* the last call that ended (op, input, outcome, ...);
                   \* NoCall when a call has just been suspended
    planRun,       \* the execute_plan call in progress, suspended at an
                   \* await of the execute_task call of its i-th subtask
    steps,         \* ExecutionPlan.steps of a plan of the data model
    config,        \* the AgentConfig in force
    inflight,      \* the bag of the execute_task, process_request and
                   \* find_capable_agents calls suspended at an await,
                   \* each with its frame
    session,       \* the SessionContext and the ConversationHistory the
                   \* store holds for a session id
    handlers       \* each request being handled on that session: its
                   \* position and the copy it works on

vars ==
    <<agents, registered, failuresLeft, last, planRun, steps, config, inflight,
      session, handlers>>

\* fault: the outcome of the call's try block, before its except clause.
\* trace: for execute_plan, one entry per call of a worker's execute, with
\* the task's id, the ids of the subtasks Completed at that moment and the
\* ids of the subtasks whose execute_task call had returned by then
Call(op, input, outcome, fault, dispatched, trace) ==
    [op |-> op, input |-> input, outcome |-> outcome, fault |-> fault,
     dispatched |-> dispatched, trace |-> trace]

NoCall == Call("none", None, Return(None), Return(None), <<>>, <<>>)

Idle == [pc |-> "idle"]

Init ==
    /\ agents = <<>>
    /\ registered = <<>>
    /\ failuresLeft = [id \in FlakyIds |-> FlakyFailures]
    /\ last = NoCall
    /\ planRun = Idle
    /\ steps = <<>>
    /\ config = AgentConfig(DEFAULT_MAX_CONCURRENT_TASKS).value
    /\ inflight = EmptyBag
    /\ session = [message_count |-> 0, messages |-> <<>>]
    /\ handlers = [p \in Requests |-> [pc |-> "idle"]]

\* middleware.register_agent(agent)
RegisterAgent(agent) ==
    /\ Len(registered) < MaxRegistrations
    /\ agents' = register_agent(agents, agent)
    /\ registered' = Append(registered, agent)
    /\ last' = Call("register_agent", agent, Return(None), Return(None), <<>>, <<>>)
    /\ UNCHANGED <<config, inflight, session, handlers, steps, failuresLeft, planRun>>

\* the one worker the middleware is set up with
RegisterFirstAgent(agent) ==
    /\ agents = <<>>
    /\ RegisterAgent(agent)

\* a caller constructs a TaskRequest
ConstructTaskRequest(id, intent, description, timeout, retry_count, max_retries) ==
    /\ last' = Call("TaskRequest", [description |-> description, timeout |-> timeout],
                    TaskRequest(id, intent, description, ExecutionContext("s1"),
                                PRIORITY_MEDIUM, timeout, retry_count, max_retries),
                    Return(None), <<>>, <<>>)
    /\ UNCHANGED <<config, inflight, session, handlers, steps, agents, registered, failuresLeft, planRun>>

\* the record of an execute_task call whose try block ended as body
ExecuteTaskCall(task, body) ==
    Call("execute_task", task, ExecuteTaskHandler(task, body.outcome),
         body.outcome, body.dispatched, <<>>)

\* middleware.process_request(user_input, context)
ProcessRequestCall(user_input, context, r) ==
    Call("process_request", [user_input |-> user_input, context |-> context],
         r.outcome, r.fault, r.dispatched, <<>>)

\* a call suspended at an await; elapsed counts the seconds it has been
\* waiting there
InFlight(op, input, task, frame) ==
    [op |-> op, input |-> input, task |-> task, frame |-> frame, elapsed |-> 0]

\* the record of the call e whose execute_task try block ended as body:
\* execute_task returns through its except clause; process_request goes on
\* to _format_single_result and its own except clause
EndedCall(e, body) ==
    IF e.op = "execute_task"
    THEN ExecuteTaskCall(e.task, body)
    ELSE ProcessRequestCall(e.input.user_input, e.input.context,
                            FacadeResult(SingleTaskResponse(Handled(e.task, body))))

\* A call runs from its start to its first suspension or to its end:
\* nothing else runs on the event loop in between.
BeginCall(e, start) ==
    IF start.pc = "done"
    THEN /\ last' = EndedCall(e, start.body)
         /\ failuresLeft' = start.body.failuresLeft
         /\ UNCHANGED inflight
    ELSE /\ BagCardinality(inflight) < MaxInFlight
         /\ inflight' = inflight (+) SetToBag({InFlight(e.op, e.input, e.task, start)})
         /\ last' = NoCall
         /\ UNCHANGED failuresLeft

\* execution_engine.execute_task(task)
ExecuteTask(task) ==
    /\ BeginCall([op |-> "execute_task", input |-> task, task |-> task],
                 EngineStart(agents, task, failuresLeft))
    /\ UNCHANGED <<config, session, handlers, steps, agents, registered, planRun>>

\* middleware.process_request(user_input, context): a fault of classify or
\* of the TaskRequest construction ends the call at once; otherwise the
\* call goes into execute_task (the planning branch, which
\* _needs_planning never selects, is taken whole)
ProcessRequest(user_input, context, id) ==
    /\ LET intent == classify(user_input)
           request == IF intent.raised THEN intent
                      ELSE NewTaskRequest(user_input, context, id, intent.value)
           response == process_request(agents, user_input, context, id, failuresLeft)
       IN  IF request.raised \/ _needs_planning(request.value)
           THEN /\ last' = ProcessRequestCall(user_input, context, response)
                /\ failuresLeft' = response.failuresLeft
                /\ UNCHANGED inflight
           ELSE BeginCall([op |-> "process_request",
                           input |-> [user_input |-> user_input, context |-> context],
                           task |-> request.value],
                          EngineStart(agents, request.value, failuresLeft))
    /\ UNCHANGED <<config, session, handlers, steps, agents, registered, planRun>>

\* The suspended execute_task or process_request call e is resumed: the
\* can_handle or the execute it awaits has answered.  It runs to its next
\* suspension or to its end.
Resume(e) ==
    /\ BagIn(e, inflight)
    /\ e.op \in {"execute_task", "process_request"}
    /\ LET s == EngineResume(agents, e.task, e.frame, failuresLeft)
       IN  IF s.pc = "done"
           THEN /\ last' = EndedCall(e, s.body)
                /\ failuresLeft' = s.body.failuresLeft
                /\ inflight' = inflight (-) SetToBag({e})
           ELSE /\ inflight' = (inflight (-) SetToBag({e}))
                                   (+) SetToBag({InFlight(e.op, e.input, e.task, s)})
                /\ UNCHANGED <<last, failuresLeft>>
    /\ UNCHANGED <<config, session, handlers, steps, agents, registered, planRun>>

\* ------------------------------------------------------------------------
\* execute_plan, from one suspension to the next
\* ------------------------------------------------------------------------
\* the subtasks plans are made of
PriorityRequest(id, intent, priority) ==
    TaskRequest(id, intent, Str(<<"h","i">>), ExecutionContext("s1"),
                priority, DEFAULT_TIMEOUT, DEFAULT_RETRY_COUNT,
                DEFAULT_MAX_RETRIES).value

PlanTaskPool ==
    << ValidRequest("t1", "code_generation", DEFAULT_RETRY_COUNT),
       PriorityRequest("t2", "testing", PRIORITY_HIGH),
       ValidRequest("t3", "security_scan", DEFAULT_RETRY_COUNT) >>

\* the lists of at most MaxSubtasks distinct subtasks
SubtaskLists ==
    UNION { { [k \in 1..n |-> PlanTaskPool[f[k]]] :
              f \in {g \in [1..n -> 1..Len(PlanTaskPool)] :
                       \A a, b \in 1..n : a # b => g[a] # g[b]} } :
            n \in 0..MaxSubtasks }

\* dependency dicts over a list of subtasks: none, each subtask on the one
\* after it, each subtask on the one before it
DependencyDicts(subtasks) ==
    LET n == Len(subtasks)
    IN  { <<>>,
          [id \in {subtasks[k].id : k \in 1..(n - 1)} |->
             <<subtasks[(CHOOSE k \in 1..(n - 1) : subtasks[k].id = id) + 1].id>>],
          [id \in {subtasks[k].id : k \in 2..n} |->
             <<subtasks[(CHOOSE k \in 2..n : subtasks[k].id = id) - 1].id>>] }

Plans ==
    UNION { { ExecutionPlan("plan-1", PlanTaskPool[1], subtasks, deps,
                            PLAN_ESTIMATED_DURATION) :
              deps \in DependencyDicts(subtasks) } :
            subtasks \in SubtaskLists }

\* plan.dependencies.get(task_id, [])
DependenciesOf(plan, task_id) ==
    IF task_id \in DOMAIN plan.dependencies
    THEN {plan.dependencies[task_id][k] : k \in 1..Len(plan.dependencies[task_id])}
    ELSE {}

\* task_planner.create_plan(task)
CreatePlan(task) ==
    /\ planRun.pc = "idle"
    /\ last' = Call("create_plan", task, create_plan(task), Return(None), <<>>, <<>>)
    /\ UNCHANGED <<config, inflight, session, handlers, steps, agents, registered, failuresLeft, planRun>>

\* the execute_plan call has come to state s: ended or suspended
PlanProgress(plan, s, suspendedLast) ==
    /\ failuresLeft' = s.run.failuresLeft
    /\ IF s.pc = "done"
       THEN /\ last' = Call("execute_plan", plan, s.run.outcome, Return(None),
                            s.run.dispatched, s.trace)
            /\ planRun' = Idle
       ELSE /\ planRun' = s
            /\ last' = suspendedLast

\* execute_plan(plan), from results = [] up to its first suspension or its
\* end
ExecutePlanCall(plan) ==
    /\ planRun.pc = "idle"
    /\ PlanProgress(plan,
                    PlanFrom(agents, plan, 1,
                             EngineResult(Return(<<>>), <<>>, failuresLeft), <<>>),
                    NoCall)
    /\ UNCHANGED <<config, inflight, session, handlers, steps, agents, registered>>

\* The suspended execute_plan call is resumed: the can_handle or the
\* execute awaited by the execute_task call of its i-th subtask has
\* answered.
ExecutePlanLoop ==
    /\ planRun.pc = "await"
    /\ PlanProgress(
          planRun.plan,
          PlanAfter(agents, planRun.plan, planRun.i,
                    [planRun.run EXCEPT !.failuresLeft = failuresLeft],
                    planRun.trace, planRun.frame.pc = "execute",
                    EngineResume(agents, planRun.plan.subtasks[planRun.i],
                                 planRun.frame, failuresLeft)),
          last)
    /\ UNCHANGED <<config, inflight, session, handlers, steps, agents, registered>>

\* the engine: workers are registered while execute_task calls run
Next ==
    \/ \E agent \in Workers : RegisterAgent(agent)
    \/ \E task \in EngineTasks : ExecuteTask(task)
    \/ \E e \in BagToSet(inflight) : Resume(e)

Spec == Init /\ [][Next]_vars

\* the clients of the chat endpoint: each awaits the response of its
\* request before it sends the next one
Callers == {"c1", "c2"}

\* one of the callers, not waiting for a response, sends a request
AwaitedRequest(callers, user_input, context, id) ==
    /\ BagCardinality(inflight) < Cardinality(callers)
    /\ ProcessRequest(user_input, context, id)

\* the facade: workers are registered while the process_request calls of
\* the callers run
NextFacade ==
    \/ \E agent \in Workers : RegisterAgent(agent)
    \/ \E user_input \in UserInputs, context \in Contexts, id \in RequestIds :
         AwaitedRequest(Callers, user_input, context, id)
    \/ \E e \in BagToSet(inflight) : Resume(e)

SpecFacade == Init /\ [][NextFacade]_vars

\* TaskRequests made by callers and by the facade of a middleware set up
\* with one worker and used by one caller
NextRequest ==
    \/ \E agent \in Workers : RegisterFirstAgent(agent)
    \/ \E id \in TaskIds, intent \in RequestIntents,
          description \in RequestDescriptions, timeout \in RequestTimeouts,
          retry_count \in RequestRetryCounts, max_retries \in {DEFAULT_MAX_RETRIES} :
         ConstructTaskRequest(id, intent, description, timeout, retry_count, max_retries)
    \/ \E user_input \in UserInputs, context \in Contexts, id \in RequestIds :
         AwaitedRequest({"c1"}, user_input, context, id)
    \/ \E e \in BagToSet(inflight) : Resume(e)

SpecRequest == Init /\ [][NextRequest]_vars

\* ------------------------------------------------------------------------
\* A plan of the data model and its owner's writes
\* ------------------------------------------------------------------------
StepIds == <<"s1", "s2", "s3", "s4">>

StepDependencies == {<<>>, <<"s1", "s3">>}

\* the sets of completed step ids given to get_ready_steps
CompletedSets == SUBSET {"s1", "s3"}

\* plan.steps.append(ExecutionStep(...))
AppendStep(dependencies, status, retry_count, max_retries) ==
    /\ Len(steps) < MaxSteps
    /\ steps' = Append(steps,
                       ExecutionStep(StepIds[Len(steps) + 1], "code", PlanTaskPool[1],
                                     dependencies, status, retry_count, max_retries))
    /\ UNCHANGED <<config, inflight, session, handlers, agents, registered, failuresLeft, last, planRun>>

\* step.status = status
SetStepStatus(k, status) ==
    /\ k \in 1..Len(steps)
    /\ steps' = [steps EXCEPT ![k].status = status]
    /\ UNCHANGED <<config, inflight, session, handlers, agents, registered, failuresLeft, last, planRun>>

NextSteps ==
    \/ \E dependencies \in StepDependencies, status \in TaskStatus,
          retry_count \in RequestRetryCounts, max_retries \in {DEFAULT_MAX_RETRIES} :
         AppendStep(dependencies, status, retry_count, max_retries)
    \/ \E k \in 1..MaxSteps, status \in TaskStatus : SetStepStatus(k, status)

SpecSteps == Init /\ [][NextSteps]_vars

\* The caller cancels the asyncio task that runs execute_plan while it is
\* suspended (the engine has no cancel operation of its own).  asyncio
\* raises CancelledError at the await; it is not an Exception, so neither
\* the worker's nor execute_task's except clause catches it and it leaves
\* execute_plan: the results so far are dropped with the frame.  str(e) of
\* the CancelledError is empty; the fault names its class.
CancelPlan ==
    /\ planRun.pc = "await"
    /\ last' = Call("execute_plan", planRun.plan, Raise(""), Raise("CancelledError"),
                    IF planRun.frame.pc = "execute"
                    THEN Append(planRun.run.dispatched, planRun.frame.selected_agent.id)
                    ELSE planRun.run.dispatched,
                    planRun.trace)
    /\ planRun' = Idle
    /\ UNCHANGED <<config, inflight, session, handlers, steps, agents, registered, failuresLeft>>

NextPlan ==
    \/ \E agent \in Workers : RegisterAgent(agent)
    \/ \E plan \in Plans : ExecutePlanCall(plan)
    \/ ExecutePlanLoop
    \/ CancelPlan
    \/ \E task \in EngineTasks : CreatePlan(task)

SpecPlan == Init /\ [][NextPlan]_vars

\* ------------------------------------------------------------------------
\* A TaskResult and the calls of its mark_completed / mark_failed
\* ------------------------------------------------------------------------
ResultAgentTypes == {"code", "unknown"}

\* payloads of a result: None, the empty dict and two dicts of a worker
ResultPayloads ==
    {None, <<>>, [code |-> "hello", language |-> "python"],
     [code |-> "fibonacci", language |-> "python"]}

ResultErrors == {NoneStr, "worker failed", "timeout"}

ResultTimes == {0 - 1, 0, MOCK_EXECUTION_TIME}

\* a caller constructs a TaskResult
ConstructTaskResult(task_id, agent_type, status, result, error, execution_time) ==
    /\ last' = Call("TaskResult", None,
                    TaskResult(task_id, agent_type, status, result, error, execution_time),
                    Return(None), <<>>, <<>>)
    /\ UNCHANGED <<config, inflight, session, handlers, steps, agents, registered, failuresLeft, planRun>>

\* a caller builds a TaskResult with the factory create_task_result
CreateTaskResult(task_id, agent_type, status, result, error, execution_time) ==
    /\ last' = Call("create_task_result", None,
                    create_task_result(task_id, agent_type, status, result, error,
                                       execution_time),
                    Return(None), <<>>, <<>>)
    /\ UNCHANGED <<config, inflight, session, handlers, steps, agents, registered, failuresLeft, planRun>>

\* the TaskResult object at hand: the one last constructed or marked
HasTaskResult ==
    /\ last.op \in {"TaskResult", "create_task_result", "mark_completed", "mark_failed"}
    /\ ~last.outcome.raised

\* task_result.mark_completed(result); the call record holds the object
\* before the call (input) and after it (outcome)
MarkCompleted(result) ==
    /\ HasTaskResult
    /\ last' = Call("mark_completed", last.outcome.value,
                    Return(mark_completed(last.outcome.value, result)),
                    Return(None), <<>>, <<>>)
    /\ UNCHANGED <<config, inflight, session, handlers, steps, agents, registered, failuresLeft, planRun>>

\* task_result.mark_failed(error)
MarkFailed(error) ==
    /\ HasTaskResult
    /\ last' = Call("mark_failed", last.outcome.value,
                    Return(mark_failed(last.outcome.value, error)),
                    Return(None), <<>>, <<>>)
    /\ UNCHANGED <<config, inflight, session, handlers, steps, agents, registered, failuresLeft, planRun>>

NextResult ==
    \/ \E task_id \in TaskIds, agent_type \in ResultAgentTypes, status \in TaskStatus,
          result \in ResultPayloads, error \in ResultErrors,
          execution_time \in ResultTimes :
         ConstructTaskResult(task_id, agent_type, status, result, error, execution_time)
    \/ \E task_id \in TaskIds, agent_type \in ResultAgentTypes, status \in TaskStatus,
          result \in ResultPayloads, error \in ResultErrors,
          execution_time \in ResultTimes :
         CreateTaskResult(task_id, agent_type, status, result, error, execution_time)
    \/ \E result \in ResultPayloads : MarkCompleted(result)
    \/ \E error \in ResultErrors \ {NoneStr} : MarkFailed(error)

SpecResult == Init /\ [][NextResult]_vars

\* ------------------------------------------------------------------------
\* Calls of IntentClassifier.classify
\* ------------------------------------------------------------------------
\* fragments the input texts are made of
MaxFragments == 2

Fragments ==
    { <<"I","m","p","l","e","m","e","n","t">>,
      <<"D","E","P","L","O","Y"," ","T","O">>,
      <<"w","r","i","t","e"," ","t","e","s","t","s">>,
      <<"w","r","i","t","e"," ">>,
      <<"c","o","d","e"," ","f","o","r">>,
      <<"G","e","n","e","r","a","t","e">>,
      <<"h","i">>,
      <<"É","T","É"," ">>,
      <<" ">> }

RECURSIVE Concat(_)
Concat(fragments) ==
    IF fragments = <<>> THEN <<>> ELSE Head(fragments) \o Concat(Tail(fragments))

\* the texts of at most MaxFragments fragments, and None in place of a text
ClassifyInputs ==
    {Str(Concat(fs)) : fs \in UNION {[1..n -> Fragments] : n \in 0..MaxFragments}}
        \cup {NoneInput}

\* intent_classifier.classify(user_input, context)
Classify(user_input, context) ==
    /\ last' = Call("classify", [user_input |-> user_input, context |-> context],
                    classify(user_input), Return(None), <<>>, <<>>)
    /\ UNCHANGED <<config, inflight, session, handlers, steps, agents, registered, failuresLeft, planRun>>

NextClassify ==
    \E user_input \in ClassifyInputs, context \in Contexts : Classify(user_input, context)

SpecClassify == Init /\ [][NextClassify]_vars

\* ------------------------------------------------------------------------
\* Requests processed at the same time: dispatches in flight
\* ------------------------------------------------------------------------
\* values given for max_concurrent_tasks
ConcurrencyLimits == {0, 1, 101}

\* a TaskRequest with the given timeout, in seconds
TimedRequest(id, intent, timeout) ==
    TaskRequest(id, intent, Str(<<"h","i">>), ExecutionContext("s1"),
                PRIORITY_MEDIUM, timeout, DEFAULT_RETRY_COUNT,
                DEFAULT_MAX_RETRIES).value

\* the requests of the callers being served at the same time
DispatchTasks ==
    { TimedRequest("t1", "code_generation", 1),
      TimedRequest("t2", "testing", 2),
      TimedRequest("t3", "code_generation", 2) }

\* AgentConfig(max_concurrent_tasks=n), built before any request is served
ConfigureAgents(n) ==
    /\ inflight = EmptyBag
    /\ config' = IF AgentConfig(n).raised THEN config ELSE AgentConfig(n).value
    /\ last' = Call("AgentConfig", n, AgentConfig(n), Return(None), <<>>, <<>>)
    /\ UNCHANGED <<agents, registered, failuresLeft, planRun, steps, inflight,
                   session, handlers>>

\* one second passes while the suspended calls wait; execute_task sets no
\* timer on its awaits
Tick ==
    /\ inflight # EmptyBag
    /\ \A e \in BagToSet(inflight) : e.elapsed < MaxElapsed
    /\ inflight' = [f \in {[e EXCEPT !.elapsed = @ + 1] : e \in BagToSet(inflight)} |->
                      inflight[[f EXCEPT !.elapsed = @ - 1]]]
    /\ UNCHANGED <<agents, registered, failuresLeft, last, planRun, steps, config,
                   session, handlers>>

NextDispatch ==
    \/ \E n \in ConcurrencyLimits : ConfigureAgents(n)
    \/ \E agent \in Workers : RegisterFirstAgent(agent)
    \/ \E task \in DispatchTasks : ExecuteTask(task)
    \/ \E e \in BagToSet(inflight) : Resume(e)
    \/ Tick

SpecDispatch == Init /\ [][NextDispatch]_vars

\* ------------------------------------------------------------------------
\* SessionContext and ConversationHistory shared by the requests of a session
\* ------------------------------------------------------------------------
\* largest limit given to get_recent_messages
MaxLimit == 2

\* AgentMessage(id=..., message_type=..., content=..., session_id="s1")
AgentMessage(id, message_type) ==
    [id |-> id, message_type |-> message_type, session_id |-> "s1"]

\* SessionContext.update_activity(): self.message_count += 1
update_activity(ctx) ==
    [ctx EXCEPT !.message_count = @ + 1]

\* ConversationHistory.add_message(message): self.messages.append(message)
add_message(messages, message) == Append(messages, message)

\* list[-limit:] of Python for limit >= 0: -0 is 0, so [-0:] is the whole
\* list; a limit beyond the length also gives the whole list
LastSlice(list, limit) ==
    IF limit = 0 \/ limit >= Len(list) THEN list
    ELSE SubSeq(list, Len(list) - limit + 1, Len(list))

\* ConversationHistory.get_recent_messages(limit):
\* return self.messages[-limit:] if self.messages else []
get_recent_messages(messages, limit) ==
    IF messages # <<>> THEN LastSlice(messages, limit) ELSE <<>>

\* The Session/Context Store (memory/context_manager.py, ContextMemory) holds
\* the SessionContext and the ConversationHistory of a session id; a
\* request works on the copy that load gives it and writes it back with
\* save; appendMessage reads the history, adds the message and writes the
\* history back.  The store serializes the reads and writes of a session
\* id: one writer at a time.
\*
\* a store that lets every request in
SessionFree_Unserialized(p) == TRUE

\* no other request is between a read and the write that follows it
SessionFree(p) ==
    \A q \in Requests \ {p} : handlers[q].pc \notin {"loaded", "updated", "appending"}

\* load(session_id): request p gets its copy of the stored SessionContext
Load(p) ==
    /\ handlers[p].pc = "idle"
    /\ SessionFree(p)
    /\ handlers' = [handlers EXCEPT
                      ![p] = [pc |-> "loaded",
                              ctx |-> [message_count |-> session.message_count]]]
    /\ UNCHANGED <<agents, registered, failuresLeft, last, planRun, steps, config,
                   inflight, session>>

\* request p calls update_activity on its SessionContext
UpdateActivity(p) ==
    /\ handlers[p].pc = "loaded"
    /\ handlers' = [handlers EXCEPT
                      ![p] = [pc |-> "updated", ctx |-> update_activity(handlers[p].ctx)]]
    /\ UNCHANGED <<agents, registered, failuresLeft, last, planRun, steps, config,
                   inflight, session>>

\* save(SessionContext): the copy of request p replaces the stored one
Save(p) ==
    /\ handlers[p].pc = "updated"
    /\ session' = [session EXCEPT !.message_count = handlers[p].ctx.message_count]
    /\ handlers' = [handlers EXCEPT ![p] = [pc |-> "saved"]]
    /\ UNCHANGED <<agents, registered, failuresLeft, last, planRun, steps, config,
                   inflight>>

\* appendMessage(session_id, message) of request p begins: it reads the
\* stored ConversationHistory
BeginAppend(p) ==
    /\ handlers[p].pc = "saved"
    /\ SessionFree(p)
    /\ handlers' = [handlers EXCEPT
                      ![p] = [pc |-> "appending", messages |-> session.messages]]
    /\ UNCHANGED <<agents, registered, failuresLeft, last, planRun, steps, config,
                   inflight, session>>

\* appendMessage ends: add_message on the history read, which is written
\* back
AddMessage(p, message_type) ==
    /\ handlers[p].pc = "appending"
    /\ session' = [session EXCEPT
                     !.messages = add_message(handlers[p].messages,
                                              AgentMessage(p, message_type))]
    /\ handlers' = [handlers EXCEPT ![p] = [pc |-> "added"]]
    /\ UNCHANGED <<agents, registered, failuresLeft, last, planRun, steps, config,
                   inflight>>

\* a caller reads the recent messages of the history
GetRecentMessages(limit) ==
    /\ last' = Call("get_recent_messages",
                    [messages |-> session.messages, limit |-> limit],
                    Return(get_recent_messages(session.messages, limit)),
                    Return(None), <<>>, <<>>)
    /\ UNCHANGED <<agents, registered, failuresLeft, planRun, steps, config,
                   inflight, session, handlers>>

NextSession ==
    \/ \E p \in Requests : Load(p)
    \/ \E p \in Requests : UpdateActivity(p)
    \/ \E p \in Requests : Save(p)
    \/ \E p \in Requests : BeginAppend(p)
    \/ \E p \in Requests, message_type \in {"user_input", "agent_response"} :
         AddMessage(p, message_type)
    \/ \E limit \in 0..MaxLimit : GetRecentMessages(limit)

SpecSession == Init /\ [][NextSession]_vars

\* ------------------------------------------------------------------------
\* The registry read by the engine and by the /agents endpoint
\* ------------------------------------------------------------------------
\* the record of a find_capable_agents call that ended as found
FindCall(task, found) ==
    Call("find_capable_agents", task,
         IF found.pc = "raised" THEN Raise(found.error)
         ELSE Return(found.capable_agents),
         Return(None), <<>>, <<>>)

\* agent_registry.find_capable_agents(task), up to its first suspension or
\* its end
FindCapableAgents(task) ==
    /\ IF FindStart(agents, task).pc = "can_handle"
       THEN /\ BagCardinality(inflight) < MaxInFlight
            /\ inflight' = inflight (+) SetToBag({InFlight("find_capable_agents", task,
                                                           task, FindStart(agents, task))})
            /\ last' = NoCall
       ELSE /\ last' = FindCall(task, FindStart(agents, task))
            /\ UNCHANGED inflight
    /\ UNCHANGED <<agents, registered, failuresLeft, planRun, steps, config,
                   session, handlers>>

\* the suspended find_capable_agents call e is resumed
ResumeFind(e) ==
    /\ BagIn(e, inflight)
    /\ e.op = "find_capable_agents"
    /\ LET found == FindResume(agents, e.task, e.frame)
       IN  IF found.pc = "can_handle"
           THEN /\ inflight' = (inflight (-) SetToBag({e}))
                                   (+) SetToBag({InFlight(e.op, e.input, e.task, found)})
                /\ UNCHANGED last
           ELSE /\ inflight' = inflight (-) SetToBag({e})
                /\ last' = FindCall(e.task, found)
    /\ UNCHANGED <<agents, registered, failuresLeft, planRun, steps, config,
                   session, handlers>>

\* agent_registry.get_all_capabilities()
GetAllCapabilities ==
    /\ last' = Call("get_all_capabilities", None,
                    Return(get_all_capabilities(agents)), Return(None), <<>>, <<>>)
    /\ UNCHANGED <<agents, registered, failuresLeft, planRun, steps, config,
                   inflight, session, handlers>>

NextRegistry ==
    \/ \E agent \in Workers : RegisterAgent(agent)
    \/ \E task \in EngineTasks : ExecuteTask(task)
    \/ \E task \in EngineTasks : FindCapableAgents(task)
    \/ GetAllCapabilities
    \/ \E e \in BagToSet(inflight) : Resume(e)
    \/ \E e \in BagToSet(inflight) : ResumeFind(e)

SpecRegistry == Init /\ [][NextRegistry]_vars

\* ------------------------------------------------------------------------
\* Plans executed under a configured concurrency limit
\* ------------------------------------------------------------------------
\* AgentConfig(max_concurrent_tasks=n) built at start-up, before a worker
\* is registered
ConfigureAtStartup(n) ==
    /\ agents = <<>>
    /\ planRun.pc = "idle"
    /\ ConfigureAgents(n)

NextSchedule ==
    \/ \E n \in ConcurrencyLimits : ConfigureAtStartup(n)
    \/ \E agent \in Workers : RegisterAgent(agent)
    \/ \E plan \in Plans : ExecutePlanCall(plan)
    \/ ExecutePlanLoop

SpecSchedule == Init /\ [][NextSchedule]_vars

\* ------------------------------------------------------------------------
\* Properties
\* ------------------------------------------------------------------------
Response == last.outcome.value

\* C1: every process_request call that ended returned to its caller, and
\* when a fault arose inside it (in the classifier, in the TaskRequest
\* construction, in the engine or in a worker) the response has status
\* failed and carries the fault's message.
C1_FacadeNeverRaises ==
    last.op = "process_request" =>
        /\ ~last.outcome.raised
        /\ last.fault.raised =>
             /\ Response.status = "failed"
             /\ Response.error = last.fault.error

\* a process_request call in which a worker was called and a fault arose
C1_Witness ==
    /\ last.op = "process_request"
    /\ last.fault.raised
    /\ last.dispatched # <<>>
    /\ Response.status = "failed"

\* C2: a code-generation request handled by the one registered worker, a
\* CodeGenerationAgent whose execute returns a Completed TaskResult, gets a
\* response with status completed, the worker's payload and no error.
C2_CompletedResponse ==
    ( /\ last.op = "process_request"
      /\ Len(registered) = 1
      /\ registered[1].kind = "codegen"
      /\ last.dispatched = <<registered[1].id>> ) =>
        /\ ~last.outcome.raised
        /\ Response.status = "completed"
        /\ Response.result = chat_completion(strip(last.input.user_input.chars))
        /\ Response.error = AbsentStr

\* C3: execute_task on a task no registered worker can handle returns a
\* Failed TaskResult with the no-capable-worker error and calls no worker.
C3_NoCapableWorkerFails ==
    ( /\ last.op = "execute_task"
      /\ find_capable_agents(agents, last.input) = <<>> ) =>
        /\ ~last.outcome.raised
        /\ last.outcome.value.status = "failed"
        /\ last.outcome.value.error = "No capable agents found"
        /\ last.dispatched = <<>>

\* C4: when the worker's execute raises, execute_task returns a Failed
\* TaskResult whose error is the failure's message.
C4_WorkerFailureAbsorbed ==
    ( /\ last.op = "execute_task"
      /\ last.dispatched # <<>>
      /\ last.fault.raised ) =>
        /\ ~last.outcome.raised
        /\ last.outcome.value.status = "failed"
        /\ last.outcome.value.error = last.fault.error

\* the calls of a worker's execute made by the execute_plan call in
\* progress or just ended, each with the plan it belongs to
PlanDispatches ==
    IF planRun.pc = "await"
    THEN {[plan |-> planRun.plan, entry |-> planRun.trace[k]] : k \in 1..Len(planRun.trace)}
    ELSE IF last.op = "execute_plan"
    THEN {[plan |-> last.input, entry |-> last.trace[k]] : k \in 1..Len(last.trace)}
    ELSE {}

\* C5: whenever execute_plan calls a worker for a subtask, every dependency
\* id the plan declares for that subtask belongs to a subtask already
\* Completed.
C5_DependenciesCompletedAtDispatch ==
    \A d \in PlanDispatches :
        DependenciesOf(d.plan, d.entry.task_id) \subseteq d.entry.completed

\* C6: after a worker failure with retry budget left the engine calls the
\* worker again; a worker that fails FlakyFailures times and then succeeds,
\* on a task with max_retries = 3, has used up its failures and ends
\* Completed.
C6_RetriedUntilCompleted ==
    ( /\ last.op = "execute_task"
      /\ last.dispatched # <<>>
      /\ last.fault.raised
      /\ last.input.retry_count < last.input.max_retries ) =>
        /\ Len(last.dispatched) >= 2
        /\ \A id \in FlakyIds : id = last.dispatched[1] => failuresLeft[id] = 0
        /\ ~last.outcome.raised
        /\ last.outcome.value.status = "completed"

\* C7: every TaskRequest and every ExecutionStep that exists has
\* retry_count <= max_retries.
C7_RetryCountBounded ==
    /\ ( last.op = "TaskRequest" /\ ~last.outcome.raised ) =>
           last.outcome.value.retry_count <= last.outcome.value.max_retries
    /\ \A k \in 1..Len(steps) : steps[k].retry_count <= steps[k].max_retries

\* C8: every worker ever given to register_agent is in the registry.
C8_RegistrationsKept ==
    \A k \in 1..Len(registered) : registered[k] \in RegisteredAgents(agents)

\* the workers of a list that can handle the task, each once, in the order
\* of their first occurrence
RECURSIVE CapableInOrder(_, _, _)
CapableInOrder(workers, task, seen) ==
    IF workers = <<>> THEN <<>>
    ELSE IF Head(workers) \in seen \/ ~can_handle(Head(workers), task)
    THEN CapableInOrder(Tail(workers), task, seen)
    ELSE <<Head(workers)>> \o CapableInOrder(Tail(workers), task, seen \cup {Head(workers)})

\* C9: find_capable_agents(task) is the list of the registered workers
\* that can handle the task, each once, in registration order (empty when
\* none can).
C9_CapableInRegistrationOrder ==
    \A task \in EngineTasks :
        find_capable_agents(agents, task) = CapableInOrder(registered, task, {})

\* what C10 speaks of
ProgressInRange ==
    /\ 0 <= get_progress(steps).num
    /\ get_progress(steps).num <= 100 * get_progress(steps).den

ProgressIs100 == get_progress(steps).num = 100 * get_progress(steps).den

AllStepsCompleted == \A k \in 1..Len(steps) : steps[k].status = "completed"

\* C10 as stated: get_progress() lies in [0,100] and is 100 exactly when
\* every step is Completed, the plan without steps included.
C10_ProgressAsStated ==
    /\ ProgressInRange
    /\ ProgressIs100 <=> AllStepsCompleted

\* C10 as amended: get_progress() lies in [0,100]; for a plan with at least
\* one step it is 100 exactly when every step is Completed; for the plan
\* without steps it is 0.
C10_Progress ==
    /\ ProgressInRange
    /\ steps # <<>> => (ProgressIs100 <=> AllStepsCompleted)
    /\ steps = <<>> => get_progress(steps).num = 0

\* a plan of three steps, two of them Completed and one Failed
C10_Witness ==
    /\ Len(steps) = 3
    /\ Cardinality({k \in 1..Len(steps) : steps[k].status = "completed"}) = 2
    /\ \E k \in 1..Len(steps) : steps[k].status = "failed"

\* the positions in the plan of the steps that are Pending and have every
\* dependency id in the completed set
ReadyPositions(completed) ==
    {k \in 1..Len(steps) :
        /\ steps[k].status = "pending"
        /\ \A d \in 1..Len(steps[k].dependencies) :
               steps[k].dependencies[d] \in completed}

\* the j-th of them in plan order
NthReadyPosition(completed, j) ==
    CHOOSE k \in ReadyPositions(completed) :
        Cardinality({m \in ReadyPositions(completed) : m < k}) = j - 1

\* C11: for every completed set, get_ready_steps returns as many steps as
\* the plan has Pending steps with every dependency id in the set, and its
\* j-th element is the j-th such step of the plan; so a step in another
\* status, or with a dependency outside the set, is not returned.
C11_ReadySteps ==
    \A completed \in CompletedSets :
        /\ Len(get_ready_steps(steps, completed)) = Cardinality(ReadyPositions(completed))
        /\ \A j \in 1..Cardinality(ReadyPositions(completed)) :
               get_ready_steps(steps, completed)[j] = steps[NthReadyPosition(completed, j)]

\* a plan whose first step is Failed, whose second step is Pending and
\* waits for s1 and s3, whose third step is Pending without dependencies:
\* with s1 completed only the third step is returned
C11_Witness ==
    /\ Len(steps) = 3
    /\ steps[1].status = "failed"
    /\ steps[2].status = "pending" /\ steps[2].dependencies = <<"s1", "s3">>
    /\ steps[3].status = "pending" /\ steps[3].dependencies = <<>>
    /\ get_ready_steps(steps, {"s1"}) = <<steps[3]>>
    /\ get_ready_steps(steps, {"s1", "s3"}) = <<steps[2], steps[3]>>

\* the TaskResult has been marked by mark_completed or mark_failed: only
\* they assign the enum member to status (create_task_result sets
\* completed_at too, on the plain value)
Marked(tr) == tr.completed /\ tr.status_is_enum

\* C12: a mark_completed or mark_failed call on a TaskResult that an
\* earlier such call has already marked leaves its status, its result
\* payload and its error as they were.
C12_MarkedOnce ==
    ( /\ last.op \in {"mark_completed", "mark_failed"}
      /\ Marked(last.input) ) =>
        /\ last.outcome.value.status = last.input.status
        /\ last.outcome.value.result = last.input.result
        /\ last.outcome.value.error = last.input.error

\* the TaskResult a worker's execute returns for the request of the last
\* process_request call, for the workers whose result does not depend on
\* the request: a CodeGenerationAgent without llm_client returns Failed
StepResultOf(w) ==
    execute(w, [id |-> "t1", description |-> <<>>], failuresLeft).value

EndsFailed(w) == w.kind = "codegen_nollm"

\* C13: when the step of a request ends Failed (its worker returned a
\* Failed TaskResult), the response of process_request has status failed
\* and carries the step's error; so no response with status completed is
\* produced for it.
C13_FailedStepFailsResponse ==
    \A w \in Workers :
        ( /\ last.op = "process_request"
          /\ last.dispatched = <<w.id>>
          /\ EndsFailed(w) ) =>
            /\ Response.status = "failed"
            /\ Response.error = StepResultOf(w).error

\* an execute_plan call that ended by the caller's cancellation
PlanCancelled ==
    /\ last.op = "execute_plan"
    /\ last.fault.raised
    /\ last.fault.error = "CancelledError"

\* the subtasks of the cancelled plan no worker was called for
NotStarted ==
    {k \in 1..Len(last.input.subtasks) :
        \A t \in 1..Len(last.trace) : last.trace[t].task_id # last.input.subtasks[k].id}

\* C14: an execute_plan call cancelled mid-run reports the plan's steps:
\* every subtask that had not been started has a TaskResult with status
\* cancelled, and no worker was called for it.
C14_CancelMarksPending ==
    PlanCancelled =>
        /\ ~last.outcome.raised
        /\ \A k \in NotStarted :
               \E r \in 1..Len(last.outcome.value) :
                   /\ last.outcome.value[r].task_id = last.input.subtasks[k].id
                   /\ last.outcome.value[r].status = "cancelled"

\* ids of the subtasks of a plan
SubtaskIds(plan) == {plan.subtasks[k].id : k \in 1..Len(plan.subtasks)}

\* the dependency relation of the plan has no cycle: the subtasks can be
\* ranked so that each one ranks above the subtasks it depends on
Acyclic(plan) ==
    \E rank \in [SubtaskIds(plan) -> 1..Len(plan.subtasks)] :
        \A id \in SubtaskIds(plan) :
            \A dep \in DependenciesOf(plan, id) \cap SubtaskIds(plan) :
                rank[dep] < rank[id]

\* every dependency id the plan names is the id of one of its subtasks
NoDanglingDependency(plan) ==
    \A id \in DOMAIN plan.dependencies :
        DependenciesOf(plan, id) \subseteq SubtaskIds(plan)

\* C15: every plan create_plan returns has a dependency relation without
\* a cycle that names only ids of the plan's own subtasks, and create_plan
\* has called no worker: no step is executed before the plan is returned.
C15_PlannerReturnsAcyclicPlan ==
    last.op = "create_plan" =>
        /\ last.dispatched = <<>>
        /\ ~last.outcome.raised =>
               /\ Acyclic(last.outcome.value)
               /\ NoDanglingDependency(last.outcome.value)

\* a create_plan call on a code-generation request that returned a plan
\* whose subtasks are the request alone
C15_Witness ==
    /\ last.op = "create_plan"
    /\ last.input.intent = "code_generation"
    /\ ~last.outcome.raised
    /\ SubtaskIds(last.outcome.value) = {last.input.id}

\* C16: a create_plan call made while the registry holds no worker for the
\* request of the plan's step (none at all, or none that can handle it)
\* fails and returns no plan.
C16_PlanningFailsWithoutWorker ==
    ( /\ last.op = "create_plan"
      /\ find_capable_agents(agents, last.input) = <<>> ) =>
        last.outcome.raised

\* no keyword of any intent occurs in the lower-cased text
NoKeywordIn(chars) ==
    \A i \in 1..Len(intent_examples) :
        \A k \in 1..Len(intent_examples[i].keywords) :
            ~Contains(lower(chars), intent_examples[i].keywords[k])

\* C17: every classify call on a text, whatever the context, returns, and
\* returns a tag of the classifier's intent set, which is part of the
\* closed set of intent tags; when no keyword of any intent occurs in the
\* text the tag is code generation.
C17_ClassifyReturnsTag ==
    ( last.op = "classify" /\ last.input.user_input.isStr ) =>
        /\ ~last.outcome.raised
        /\ last.outcome.value \in ClassifierIntentType
        /\ last.outcome.value \in IntentType
        /\ NoKeywordIn(last.input.user_input.chars) =>
               last.outcome.value = "code_generation"

\* a classify call on a non-empty text without any keyword, given no
\* context, that returned the fallback tag
C17_Witness ==
    /\ last.op = "classify"
    /\ last.input.user_input.isStr
    /\ Len(last.input.user_input.chars) > 2
    /\ ~last.input.context.isContext
    /\ NoKeywordIn(last.input.user_input.chars)
    /\ last.outcome.value = "code_generation"

\* a message that is empty after trimming
Blank(user_input) == user_input.isStr /\ strip(user_input.chars) = <<>>

\* C18: the construction of a TaskRequest whose description is empty after
\* trimming, or whose timeout lies outside 1..3600, fails; and a
\* process_request call on such a message ends in that failure, with a
\* failed response, before any plan is made or any worker is called.
C18_MalformedRejected ==
    /\ ( /\ last.op = "TaskRequest"
          /\ \/ Blank(last.input.description)
             \/ last.input.timeout < 1
             \/ last.input.timeout > 3600 ) =>
           last.outcome.raised
    /\ ( last.op = "process_request" /\ Blank(last.input.user_input) ) =>
           /\ last.fault.raised
           /\ Response.status = "failed"
           /\ last.dispatched = <<>>

\* a process_request call on a blank message, given a context, while a
\* worker that handles the classified intent is registered
C18_Witness ==
    /\ last.op = "process_request"
    /\ Blank(last.input.user_input)
    /\ Len(last.input.user_input.chars) > 0
    /\ last.input.context.isContext
    /\ \E i \in 1..Len(agents) : "code_generation" \in agents[i].agent.handles
    /\ Response.status = "failed"
    /\ last.dispatched = <<>>

\* C19: create_plan on a request returns a plan of exactly one step; the
\* step is the request as it was given, the plan's original task is that
\* request too, and the plan declares no dependency for any step.
C19_SingleStepPlan ==
    last.op = "create_plan" =>
        /\ ~last.outcome.raised
        /\ Len(last.outcome.value.subtasks) = 1
        /\ last.outcome.value.subtasks[1] = last.input
        /\ last.outcome.value.original_task = last.input
        /\ DOMAIN last.outcome.value.dependencies = {}
        /\ DependenciesOf(last.outcome.value, last.input.id) = {}

\* a create_plan call on a testing request, made while workers are
\* registered, that returned a plan holding that request
C19_Witness ==
    /\ last.op = "create_plan"
    /\ last.input.intent = "testing"
    /\ agents # <<>>
    /\ ~last.outcome.raised
    /\ last.outcome.value.subtasks = <<last.input>>

\* the worker of that id can be suspended in execute, so that a dispatch
\* to it stays in flight
WorkerSuspends(id) == \E w \in Workers : w.id = id /\ Suspends(w)

\* C20: in an execute_plan call, when two subtasks without dependencies
\* are both dispatched and the worker of the earlier one can be suspended
\* in execute, the later one is dispatched while the earlier is in flight:
\* the execute_task call of the earlier has not returned at that moment.
C20_IndependentStepsOverlap ==
    last.op = "execute_plan" =>
        \A a, b \in 1..Len(last.trace) :
            ( /\ a < b
              /\ DependenciesOf(last.input, last.trace[a].task_id) = {}
              /\ DependenciesOf(last.input, last.trace[b].task_id) = {}
              /\ WorkerSuspends(last.dispatched[a]) ) =>
                last.trace[a].task_id \notin last.trace[b].returned

\* the calls in flight that are dispatched: suspended in a worker's execute
Dispatched == {e \in BagToSet(inflight) : e.frame.pc = "execute"}

\* C21: the number of dispatches in flight never exceeds the configured
\* max_concurrent_tasks.
C21_InFlightWithinLimit ==
    BagCardinality([e \in Dispatched |-> inflight[e]]) <= config.max_concurrent_tasks

\* C23: no dispatch stays in flight beyond the timeout of its request:
\* when the timeout has expired the engine has ended the dispatch (as a
\* worker failure), so execute_task returns although the worker is silent.
C23_DispatchBoundedByTimeout ==
    \A e \in Dispatched : e.elapsed <= e.task.timeout

\* the subtask of the plan with the given id
SubtaskOf(plan, task_id) ==
    plan.subtasks[CHOOSE k \in 1..Len(plan.subtasks) : plan.subtasks[k].id = task_id]

\* the subtasks of d.plan that are ready when the dispatch d is made: not
\* yet handed to execute_task and with every dependency Completed
ReadyAt(d) ==
    { d.plan.subtasks[k] :
        k \in { j \in 1..Len(d.plan.subtasks) :
                  /\ d.plan.subtasks[j].id \notin d.entry.returned
                  /\ DependenciesOf(d.plan, d.plan.subtasks[j].id)
                        \subseteq d.entry.completed } }

\* C22: with max_concurrent_tasks = 1, a subtask is dispatched only when no
\* other subtask ready at that moment has a higher priority, whatever the
\* order of the subtasks in the plan.
C22_HigherPriorityFirst ==
    config.max_concurrent_tasks = 1 =>
        \A d \in PlanDispatches :
            SubtaskOf(d.plan, d.entry.task_id) \in ReadyAt(d) =>
                \A u \in ReadyAt(d) :
                    u.priority <= SubtaskOf(d.plan, d.entry.task_id).priority

\* C24: execute_plan never calls a worker for a subtask one of whose
\* dependencies has ended Failed.
C24_NoDispatchAfterFailedDependency ==
    \A d \in PlanDispatches :
        DependenciesOf(d.plan, d.entry.task_id) \cap d.entry.failed = {}

\* the requests whose update_activity has been saved / whose message has
\* been appended
Updated == {p \in Requests : handlers[p].pc \in {"saved", "appending", "added"}}

Added == {p \in Requests : handlers[p].pc = "added"}

\* C25: whatever the interleaving of the requests of a session, the
\* stored message_count equals the number of update_activity calls saved
\* and the stored history holds exactly the messages appended, one per
\* add_message call.
C25_NoLostSessionUpdate ==
    /\ session.message_count = Cardinality(Updated)
    /\ Len(session.messages) = Cardinality(Added)
    /\ \A p \in Added : \E k \in 1..Len(session.messages) : session.messages[k].id = p

\* requests interleaved: one has appended its message, another is between
\* its save and its appendMessage, and a third is working on its copy of
\* the SessionContext
C25_Witness ==
    \E p, q, r \in Requests :
        /\ handlers[p].pc = "added"
        /\ handlers[q].pc = "saved"
        /\ handlers[r].pc = "updated"
        /\ handlers[r].ctx.message_count = 3

\* C29: get_recent_messages(limit) returns the last min(limit, n) messages
\* of the history of n messages, in insertion order: never more than limit.
C29_RecentMessagesBounded ==
    last.op = "get_recent_messages" =>
        LET messages == last.input.messages
            limit == last.input.limit
            n == Len(messages)
            m == IF limit < n THEN limit ELSE n
        IN  last.outcome.value = SubSeq(messages, n - m + 1, n)

\* position of the subtask with the given id in the plan
PositionOf(plan, task_id) ==
    CHOOSE k \in 1..Len(plan.subtasks) : plan.subtasks[k].id = task_id

\* C26: an execute_plan call that is not cancelled returns one TaskResult
\* per subtask of the plan, in subtask order, and has called workers for
\* the subtasks in subtask order, at most once each.
C26_OneResultPerSubtask ==
    (last.op = "execute_plan" /\ ~last.fault.raised) =>
        /\ ~last.outcome.raised
        /\ Len(last.outcome.value) = Len(last.input.subtasks)
        /\ \A k \in 1..Len(last.input.subtasks) :
              last.outcome.value[k].task_id = last.input.subtasks[k].id
        /\ \A a, b \in 1..Len(last.trace) :
              a < b => PositionOf(last.input, last.trace[a].task_id)
                         < PositionOf(last.input, last.trace[b].task_id)

\* C27: after a mark_completed or mark_failed call the TaskResult's status
\* and error agree: Completed has no error, Failed has one.
C27_StatusAndErrorAgree ==
    last.op \in {"mark_completed", "mark_failed"} =>
        /\ last.outcome.value.status = "completed" => last.outcome.value.error = NoneStr
        /\ last.outcome.value.status = "failed" => last.outcome.value.error # NoneStr

\* the order in which the intents are tried
IntentOrder == <<"code_generation", "infrastructure_setup", "testing">>

\* the keywords the classifier holds for an intent
KeywordsOf(intent) ==
    (CHOOSE e \in {intent_examples[i] : i \in 1..Len(intent_examples)} :
        e.intent = intent).keywords

\* a keyword of the intent occurs in the text, letter case aside
Mentions(chars, intent) ==
    \E k \in 1..Len(KeywordsOf(intent)) : Contains(lower(chars), KeywordsOf(intent)[k])

\* C28: classify returns the first intent, in the order code generation,
\* infrastructure setup, testing, one of whose keywords occurs in the text
\* as a substring, letter case aside, wherever in the text the keywords are.
C28_FirstIntentInFixedOrder ==
    ( last.op = "classify" /\ last.input.user_input.isStr ) =>
        \A i \in 1..Len(IntentOrder) :
            ( /\ Mentions(last.input.user_input.chars, IntentOrder[i])
              /\ \A j \in 1..(i - 1) :
                    ~Mentions(last.input.user_input.chars, IntentOrder[j]) )
            => last.outcome = Return(IntentOrder[i])

\* a classify call on a text that begins with a testing keyword, goes on
\* with a code-generation keyword written with a capital, and got code
\* generation
C28_Witness ==
    /\ last.op = "classify"
    /\ last.input.user_input.isStr
    /\ Len(last.input.user_input.chars) > Len(KeywordsOf("testing")[1])
    /\ SubSeq(last.input.user_input.chars, 1, Len(KeywordsOf("testing")[1]))
          = KeywordsOf("testing")[1]
    /\ Mentions(last.input.user_input.chars, "code_generation")
    /\ last.input.user_input.chars # lower(last.input.user_input.chars)
    /\ last.outcome = Return("code_generation")

\* C30: execute_task calls one worker at most, the first element of the
\* list its find_capable_agents call returned (no worker when that call
\* raised or returned an empty list); and the registry changes in
\* register_agent calls only, never in a step of an execute_task,
\* find_capable_agents or get_all_capabilities call.
C30_FirstCapableOnlyRegistryKept ==
    [][ /\ agents' # agents => last'.op = "register_agent"
        /\ \A e \in BagToSet(inflight') :
              e.frame.pc = "execute" =>
                  e.frame.selected_agent = e.frame.capable_agents[1]
        /\ ( /\ last'.op = "execute_task"
             /\ last.op # "execute_task" \/ last' # last ) =>
              /\ Len(last'.dispatched) <= 1
              /\ inflight' = inflight =>
                    last'.dispatched =
                        IF find_capable_agents(agents, last'.input) = <<>> THEN <<>>
                        ELSE <<find_capable_agents(agents, last'.input)[1].id>>
              /\ \A e \in BagToSet(inflight) :
                    ( inflight' = inflight (-) SetToBag({e})
                      /\ e.frame.pc = "execute" ) =>
                        last'.dispatched = <<e.frame.selected_agent.id>> ]_vars

\* an execute_task call made with two capable workers registered has
\* called the first of them
C30_Witness ==
    /\ last.op = "execute_task"
    /\ Len(find_capable_agents(agents, last.input)) >= 2
    /\ last.dispatched = <<find_capable_agents(agents, last.input)[1].id>>

====
